---- MODULE Spec2Model ----
(***************************************************************************)
(* Model of the Sage voice-analysis core (functions/):                     *)
(*   VocalAnalysisExtractor.extract and its stability scorer,              *)
(*   FeatureFormatter.flatten_feature_sets,                                *)
(*   VoiceAnalysisService.analyze / analyze_for_firestore,                 *)
(*   AudioProcessingService._load_and_process_audio and its quality gate,  *)
(*   FirestoreOperations.store_voice_analysis_results.                     *)
(*                                                                         *)
(* Representation.                                                         *)
(*  - A Python string is the sequence of its '_'-separated words:          *)
(*    "vocal_analysis" is <<"vocal","analysis">>.  Splitting at '_' is a   *)
(*    bijection between strings and non-empty word sequences, and the      *)
(*    f-string f"{a}_{b}" is then exactly a \o b.                          *)
(*  - A Python value is a record [kind, n, d, s]: None, a number n/d       *)
(*    (d > 0, lowest terms) or a string s.                                 *)
(*  - Feature values are fixed-point integers in the unit of their         *)
(*    rounding: f0_* and hnr_* and the score in tenths, the jitter and     *)
(*    shimmer measures in thousandths (jitter_absolute in tenths of us).   *)
(*  - A dict is a function from keys to values.                            *)
(***************************************************************************)
EXTENDS Integers, Sequences, FiniteSets, TLC

VARIABLES
    pc,            \* position of the running call
    audio,         \* the preconditioned buffer: [len |-> samples, rms |-> micro-units]
    tempFile,      \* extract's temporary WAV: "none", "exists" or "deleted"
    pitch,         \* result of pitch tracking: [frames, voiced, mean, std]
    features,      \* the features dict extract is filling
    voiced_ratio,  \* extract's local voiced_ratio (a number value)
    exc,           \* the exception in flight / last caught inside extract
    engineCalls,   \* engine calls made by the running extract, in order
    warnings,      \* logger.warning / logger.error events of the running call
    result,        \* the FeatureSet extract returned (NoneV before)
    feature_sets,  \* argument of flatten_feature_sets
    flattened,     \* the record flatten_feature_sets returned
    outcome,       \* how _load_and_process_audio ended: "running", "skip", "stored", "raised"
    store,         \* documents written by store_voice_analysis_results
    args,          \* arguments of a function called on its own (scorer, gate, resampler)
    ret,           \* what that call returned, or the exception it raised
    downloadFile,  \* process_audio_file's temporary download: "none", "exists" or "deleted"
    temp_file_path, \* process_audio_file's local temp_file_path: None or the file's name
    calls,         \* concurrent extract calls: the locals of each call
    files,         \* the temporary directory they share: name -> [content, creator]
    engine,        \* what the engine measures for each audio buffer
    fileOps,       \* the reads and unlinks of temporary files made so far
    manager,       \* the FirebaseManager: its two client fields and its lock
    threads,       \* threads reading a client property: the position and locals of each
    constructed    \* the clients constructed so far, in order

vars == <<pc, audio, tempFile, pitch, features, voiced_ratio, exc, engineCalls,
          warnings, result, feature_sets, flattened, outcome, store, args, ret,
          downloadFile, temp_file_path, calls, files, engine, fileOps,
          manager, threads, constructed>>

\* the state of threads reading the client properties of one FirebaseManager
clients == <<manager, threads, constructed>>

\* the state of concurrent extract calls and of concurrent client accesses
concurrent == <<calls, files, engine, fileOps, manager, threads, constructed>>

\* state the pipeline and the formatter never touch
elsewhere == <<args, ret, downloadFile, temp_file_path, calls, files, engine, fileOps,
               manager, threads, constructed>>

\* state the functions called on their own never touch
outside == <<downloadFile, temp_file_path, calls, files, engine, fileOps,
             manager, threads, constructed>>

\* the state of a single sequential run
sequential == <<pc, audio, tempFile, pitch, features, voiced_ratio, exc, engineCalls,
                warnings, result, feature_sets, flattened, outcome, store, args, ret,
                downloadFile, temp_file_path>>

\* FirebaseManager.__init__: both client fields None (0), the lock free (0)
NewManager == [firestore |-> 0, storage |-> 0, lock |-> 0]

\* no thread is reading a client property
NoThreads ==
    /\ manager = NewManager
    /\ threads = <<>>
    /\ constructed = <<>>

\* no concurrent extract call is running
NoCalls ==
    /\ calls = <<>>
    /\ files = <<>>
    /\ engine = <<>>
    /\ fileOps = {}
    /\ NoThreads

-----------------------------------------------------------------------------
(* Python values *)

NoneV == [kind |-> "none", n |-> 0, d |-> 1, s |-> ""]
Num(n) == [kind |-> "num", n |-> n, d |-> 1, s |-> ""]
Rat(n, d) == [kind |-> "num", n |-> n, d |-> d, s |-> ""]
Str(s) == [kind |-> "str", n |-> 0, d |-> 1, s |-> s]

\* Python truthiness of a value: None, 0 and "" are falsy
Truthy(v) == \/ v.kind = "num" /\ v.n # 0
             \/ v.kind = "str" /\ v.s # ""

EmptyDict == [k \in {} |-> NoneV]

\* no function is being called on its own
NoArgs == EmptyDict

\* dict.update / item assignment: entries of new replace those of old
Update(old, new) == new @@ old

-----------------------------------------------------------------------------
(* core/models/entities.py *)

\* FeatureMetadata.__dict__, in field order
MetadataFields == << <<"duration", "seconds">>, <<"voiced", "ratio">>,
                     <<"sample", "rate">>, <<"frame", "count">>,
                     <<"voiced", "frame", "count">> >>

\* the dataclass defaults of FeatureMetadata
MetadataDefaults ==
    (<<"duration", "seconds">> :> Num(0)) @@ (<<"voiced", "ratio">> :> Num(0)) @@
    (<<"sample", "rate">> :> Num(0)) @@ (<<"frame", "count">> :> NoneV) @@
    (<<"voiced", "frame", "count">> :> NoneV)

\* FeatureMetadata(**given): __dict__ holds the fields given and the defaults for
\* the rest; `given` records which fields the caller passed (not visible in Python)
FeatureMetadata(given) ==
    [present |-> TRUE, dict |-> Update(MetadataDefaults, given), given |-> DOMAIN given]

\* metadata=None of a FeatureSet
NoMetadata == [present |-> FALSE, dict |-> MetadataDefaults, given |-> {}]

FeatureSet(extractor, version, feats, metadata, error, error_message) ==
    [extractor |-> extractor, version |-> version, features |-> feats,
     metadata |-> metadata, error |-> error, error_message |-> error_message]

-----------------------------------------------------------------------------
(* core/infrastructure/utilities/feature_formatter.py *)

\* f"{fs.extractor}_{key}"
NamespacedKey(extractor, key) == extractor \o key

\* the loop `for key, value in fs.features.items()` of one FeatureSet
FlattenFeatures(flat, fs) ==
    LET keys == {NamespacedKey(fs.extractor, k) : k \in DOMAIN fs.features}
    IN  Update(flat, [nk \in keys |->
            fs.features[CHOOSE k \in DOMAIN fs.features :
                            NamespacedKey(fs.extractor, k) = nk]])

\* flattened[f"{fs.extractor}_version"] = fs.version
FlattenVersion(flat, fs) ==
    Update(flat, NamespacedKey(fs.extractor, <<"version">>) :> fs.version)

\* mutant of FlattenError: the error_message entry is not written
FlattenErrorTypeOnly(flat, fs) ==
    IF Truthy(fs.error)
    THEN Update(flat, NamespacedKey(fs.extractor, <<"error", "type">>) :> fs.error)
    ELSE flat

\* if fs.error: the two error entries
FlattenError(flat, fs) ==
    IF Truthy(fs.error)
    THEN Update(flat,
            (NamespacedKey(fs.extractor, <<"error", "type">>) :> fs.error) @@
            (NamespacedKey(fs.extractor, <<"error", "message">>) :> fs.error_message))
    ELSE flat

\* if fs.metadata: every field of __dict__ whose value is not None
FlattenMetadata(flat, fs) ==
    IF fs.metadata.present
    THEN LET md == fs.metadata.dict
             set == {m \in DOMAIN md : md[m] # NoneV}
             keys == {NamespacedKey(fs.extractor, <<"metadata">> \o m) : m \in set}
         IN  Update(flat, [nk \in keys |->
                 md[CHOOSE m \in set :
                        NamespacedKey(fs.extractor, <<"metadata">> \o m) = nk]])
    ELSE flat

\* one iteration of `for fs in feature_sets`
FlattenOne(flat, fs) ==
    FlattenMetadata(FlattenError(FlattenVersion(FlattenFeatures(flat, fs), fs), fs), fs)

RECURSIVE FlattenFrom(_, _)
FlattenFrom(flat, list) ==
    IF list = <<>> THEN flat
    ELSE FlattenFrom(FlattenOne(flat, Head(list)), Tail(list))

\* FeatureFormatter.flatten_feature_sets
FlattenFeatureSets(list) == FlattenFrom(EmptyDict, list)

\* FeatureFormatter.format_for_firestore
FormatForFirestore(list) == FlattenFeatureSets(list)

-----------------------------------------------------------------------------
(* feature_extractors/vocal_analysis_extractor.py: names and configuration *)

F0Mean == <<"f0", "mean">>
F0Std == <<"f0", "std">>
F0Confidence == <<"f0", "confidence">>
JitterLocal == <<"jitter", "local">>
JitterAbsolute == <<"jitter", "absolute">>
JitterRap == <<"jitter", "rap">>
JitterPpq5 == <<"jitter", "ppq5">>
ShimmerLocal == <<"shimmer", "local">>
ShimmerDb == <<"shimmer", "db">>
ShimmerApq3 == <<"shimmer", "apq3">>
ShimmerApq5 == <<"shimmer", "apq5">>
HnrMean == <<"hnr", "mean">>
HnrStd == <<"hnr", "std">>
VocalStabilityScore == <<"vocal", "stability", "score">>

\* VocalAnalysisExtractor.get_feature_names()
GetFeatureNames ==
    << F0Mean, F0Std, F0Confidence,
       JitterLocal, JitterAbsolute, JitterRap, JitterPpq5,
       ShimmerLocal, ShimmerDb, ShimmerApq3, ShimmerApq5,
       HnrMean, HnrStd, VocalStabilityScore >>

\* super().__init__(name="vocal_analysis", ...)
ExtractorName == <<"vocal", "analysis">>

\* BaseFeatureExtractor.load_version_from_config: no 'version' is configured
ExtractorVersion == Str("1.0")

\* self.excellent_hnr_threshold, dB in tenths (20.0)
ExcellentHnrThreshold == 200

\* AUDIO_CONFIG['target_sample_rate']
TargetSampleRate == 48000

\* the voiced-frame gate `len(voiced_frames) > 10`
MinVoicedFrames == 10

-----------------------------------------------------------------------------
(* arithmetic helpers *)

Max(a, b) == IF a >= b THEN a ELSE b

\* round(n / q) for n >= 0, q > 0, ties to the even integer (Python's round)
RoundHalfEven(n, q) ==
    LET f == n \div q
        r == n % q
    IN  IF 2 * r < q THEN f
        ELSE IF 2 * r > q THEN f + 1
        ELSE IF f % 2 = 0 THEN f ELSE f + 1

\* features.get(key, 0) as a fixed-point integer
GetNum(feats, key) == IF key \in DOMAIN feats THEN feats[key].n ELSE 0

-----------------------------------------------------------------------------
(* VocalAnalysisExtractor._calculate_vocal_stability_score                  *)
(* Every component is returned times its weight, in thousandths of a point: *)
(* 0.4 * (c/10) = 40c/1000 for f0_confidence c in tenths, and 0.2 * s =     *)
(* 200s/1000 for a component score s.                                       *)

\* mutant of F0Component: the confidence is weighted 0.5 instead of 0.4
F0ComponentHalf(feats) == 50 * GetNum(feats, F0Confidence)

\* scores.append(f0_confidence * 0.4)
F0Component(feats) == 40 * GetNum(feats, F0Confidence)

\* mutant of JitterComponent: the scores of the two best tiers are exchanged
JitterComponentTiersSwapped(feats) ==
    LET j == GetNum(feats, JitterLocal)
    IN  IF j > 0
        THEN IF j < 1000 THEN 200 * 80
             ELSE IF j < 2000 THEN 200 * 100
             ELSE IF j < 5000 THEN Max(0, 24000 - 4 * j)
             ELSE 200 * 20
        ELSE 0

\* the jitter branch; j = jitter_local in thousandths of a percent, so
\* 200 * (80 - ((j/1000 - 2.0) / 3.0) * 60) = 24000 - 4j
JitterComponent(feats) ==
    LET j == GetNum(feats, JitterLocal)
    IN  IF j > 0
        THEN IF j < 1000 THEN 200 * 100
             ELSE IF j < 2000 THEN 200 * 80
             ELSE IF j < 5000 THEN Max(0, 24000 - 4 * j)
             ELSE 200 * 20
        ELSE 0

\* the shimmer branch; 200 * (80 - ((s/1000 - 6.0) / 4.0) * 60) = 34000 - 3s
ShimmerComponent(feats) ==
    LET sh == GetNum(feats, ShimmerLocal)
    IN  IF sh > 0
        THEN IF sh < 4000 THEN 200 * 100
             ELSE IF sh < 6000 THEN 200 * 80
             ELSE IF sh < 10000 THEN Max(0, 34000 - 3 * sh)
             ELSE 200 * 20
        ELSE 0

\* mutant of HnrComponent: the tiers are entered above their thresholds only
HnrComponentExclusive(feats, threshold) ==
    LET h == GetNum(feats, HnrMean)
    IN  IF h > 0
        THEN IF h > threshold THEN 200 * 100
             ELSE IF h > 150 THEN 200 * 80
             ELSE IF h > 100 THEN 200 * 60
             ELSE Max(0, 80 * h)
        ELSE 0

\* the HNR branch; h = hnr_mean in tenths of a dB, 200 * ((h/10)/10.0) * 40 = 80h
HnrComponent(feats, threshold) ==
    LET h == GetNum(feats, HnrMean)
    IN  IF h > 0
        THEN IF h >= threshold THEN 200 * 100
             ELSE IF h >= 150 THEN 200 * 80
             ELSE IF h >= 100 THEN 200 * 60
             ELSE Max(0, 80 * h)
        ELSE 0

\* sum(scores), in thousandths of a point
CalculateVocalStabilityScore(feats, threshold) ==
    F0Component(feats) + JitterComponent(feats) + ShimmerComponent(feats)
        + HnrComponent(feats, threshold)

\* round(self._calculate_vocal_stability_score(features), 1), in tenths
RoundedStabilityScore(feats) ==
    RoundHalfEven(CalculateVocalStabilityScore(feats, ExcellentHnrThreshold), 100)

-----------------------------------------------------------------------------
(* bounds and the values the environment may supply *)

\* largest number of pitch frames the engine reports
MaxFrames == 12

\* sample counts of the buffer at 48 kHz, around the gate's and the extractor's limits
AudioLens == {0, 23999, 24000, 36000, 48000, 2880000, 2880001}

\* RMS of the buffer in millionths, around min_rms_threshold
AudioRms == {0, 999, 1000, 50000}

AudioInputs == [len : AudioLens, rms : AudioRms]

\* safe_mean / safe_std of the voiced F0 values, Hz in tenths
F0Means == {1187, 2200}
F0Stds == {0, 52}

\* jitter_local and shimmer_local as the engine measures them, % in thousandths
JitterLocals == {0, 800, 3500, 8000}
ShimmerLocals == {0, 2500, 8000, 15000}

\* mean of the defined harmonicity frames, dB in tenths
HnrMeans == {-35, 80, 120, 180, 220, 350}

GCD(a, b) == CHOOSE g \in 1..Max(Max(a, b), 1) :
                /\ a % g = 0 /\ b % g = 0
                /\ \A h \in 1..Max(Max(a, b), 1) : (a % h = 0 /\ b % h = 0) => h <= g

\* the float n / d as a number value in lowest terms (n >= 0, d > 0)
Ratio(n, d) == Rat(n \div GCD(n, d), d \div GCD(n, d))

NoPitch == [frames |-> 0, voiced |-> 0, mean |-> 0, std |-> 0]

\* pitch.selected_array['frequency'] summarised: frame count, voiced count and,
\* when a frame is voiced, the mean and deviation of the voiced values
PitchOutcomes ==
    {[frames |-> f, voiced |-> 0, mean |-> 0, std |-> 0] : f \in {0, MaxFrames}}
    \cup [frames : {MaxFrames}, voiced : 1..MaxFrames, mean : F0Means, std : F0Stds]

NoExc == [cls |-> "none", text |-> ""]

-----------------------------------------------------------------------------
(* VocalAnalysisExtractor.extract, statement by statement *)

\* mutant of F0Biomarkers: f0_confidence is the ratio itself, not a percentage
F0BiomarkersFraction(p) ==
    IF p.voiced > 0
    THEN (F0Mean :> Num(p.mean)) @@ (F0Std :> Num(p.std)) @@
         (F0Confidence :> Num(RoundHalfEven(p.voiced * 10, p.frames)))
    ELSE (F0Mean :> Num(0)) @@ (F0Std :> Num(0)) @@ (F0Confidence :> Num(0))

\* lines 96-108: the F0 biomarkers
F0Biomarkers(p) ==
    IF p.voiced > 0
    THEN (F0Mean :> Num(p.mean)) @@ (F0Std :> Num(p.std)) @@
         (F0Confidence :> Num(RoundHalfEven(p.voiced * 1000, p.frames)))
    ELSE (F0Mean :> Num(0)) @@ (F0Std :> Num(0)) @@ (F0Confidence :> Num(0))

\* mutant of VoicedRatio: the quotient is taken without the guard of line 96
VoicedRatioUnguarded(p) == Ratio(p.voiced, p.frames)

\* the local voiced_ratio of lines 99 and 108
VoicedRatio(p) == IF p.voiced > 0 THEN Ratio(p.voiced, p.frames) ELSE Num(0)

\* lines 115-157: the eight measures when every engine call succeeds
MeasuredPerturbation(jl, sl) ==
    (JitterLocal :> Num(jl)) @@ (JitterAbsolute :> Num(250)) @@
    (JitterRap :> Num(300)) @@ (JitterPpq5 :> Num(350)) @@
    (ShimmerLocal :> Num(sl)) @@ (ShimmerDb :> Num(250)) @@
    (ShimmerApq3 :> Num(1500)) @@ (ShimmerApq5 :> Num(1800))

\* mutant of ZeroPerturbation: the handler zero-fills the F0 biomarkers as well
ZeroPerturbationAndF0 ==
    (F0Mean :> Num(0)) @@ (F0Std :> Num(0)) @@ (F0Confidence :> Num(0)) @@
    (JitterLocal :> Num(0)) @@ (JitterAbsolute :> Num(0)) @@
    (JitterRap :> Num(0)) @@ (JitterPpq5 :> Num(0)) @@
    (ShimmerLocal :> Num(0)) @@ (ShimmerDb :> Num(0)) @@
    (ShimmerApq3 :> Num(0)) @@ (ShimmerApq5 :> Num(0))

\* lines 161-170: the zero-fill of the jitter/shimmer handler
ZeroPerturbation ==
    (JitterLocal :> Num(0)) @@ (JitterAbsolute :> Num(0)) @@
    (JitterRap :> Num(0)) @@ (JitterPpq5 :> Num(0)) @@
    (ShimmerLocal :> Num(0)) @@ (ShimmerDb :> Num(0)) @@
    (ShimmerApq3 :> Num(0)) @@ (ShimmerApq5 :> Num(0))

\* mutant of ZeroHnr: the HNR fallback wipes the jitter and shimmer measures too
ZeroHnrAndPerturbation ==
    (HnrMean :> Num(0)) @@ (HnrStd :> Num(0)) @@ ZeroPerturbation

\* lines 184 and 188
ZeroHnr == (HnrMean :> Num(0)) @@ (HnrStd :> Num(0))

\* lines 191-198: insufficient voiced content
InsufficientVoicedFill ==
    (JitterLocal :> Num(0)) @@ (JitterAbsolute :> Num(0)) @@
    (ShimmerLocal :> Num(0)) @@ (ShimmerDb :> Num(0)) @@
    (HnrMean :> Num(0)) @@ (HnrStd :> Num(0))

\* lines 228-239 and 257-268: the features of both failure handlers
FailureFeatures ==
    (F0Mean :> Num(0)) @@ (F0Std :> Num(0)) @@ (F0Confidence :> Num(0)) @@
    (JitterLocal :> Num(0)) @@ (JitterAbsolute :> Num(0)) @@
    (ShimmerLocal :> Num(0)) @@ (ShimmerDb :> Num(0)) @@
    (HnrMean :> Num(0)) @@ (HnrStd :> Num(0)) @@ (VocalStabilityScore :> Num(0))

\* the names of the nine engine calls of the jitter/shimmer block, in order
PerturbationCalls ==
    << "To PointProcess (cc)", "Get jitter (local)", "Get jitter (local, absolute)",
       "Get jitter (rap)", "Get jitter (ppq5)", "Get shimmer (local)",
       "Get shimmer (local_db)", "Get shimmer (apq3)", "Get shimmer (apq5)" >>

\* lines 210-222: the FeatureSet of a completed analysis
SuccessFeatureSet(feats, ratio, p) ==
    FeatureSet(ExtractorName, ExtractorVersion, feats,
        FeatureMetadata((<<"voiced", "ratio">> :> ratio) @@
                        (<<"sample", "rate">> :> Num(TargetSampleRate)) @@
                        (<<"frame", "count">> :> Num(p.frames)) @@
                        (<<"voiced", "frame", "count">> :> Num(p.voiced))),
        NoneV, NoneV)

\* lines 241-251: the FeatureSet of the ImportError handler
UnavailableFeatureSet(e) ==
    FeatureSet(ExtractorName, ExtractorVersion, FailureFeatures,
        FeatureMetadata((<<"voiced", "ratio">> :> Rat(4, 5)) @@
                        (<<"sample", "rate">> :> Num(TargetSampleRate))),
        Str("parselmouth_unavailable"), Str(e.text))

\* mutant of FailedFeatureSet: the handler drops the exception text
FailedFeatureSetNoMessage(e) ==
    FeatureSet(ExtractorName, ExtractorVersion, FailureFeatures,
        FeatureMetadata((<<"voiced", "ratio">> :> Num(0)) @@
                        (<<"sample", "rate">> :> Num(TargetSampleRate))),
        Str("extraction_failed"), NoneV)

\* lines 270-280: the FeatureSet of the general handler
FailedFeatureSet(e) ==
    FeatureSet(ExtractorName, ExtractorVersion, FailureFeatures,
        FeatureMetadata((<<"voiced", "ratio">> :> Num(0)) @@
                        (<<"sample", "rate">> :> Num(TargetSampleRate))),
        Str("extraction_failed"), Str(e.text))

\* an engine or library call raises: control moves to the handlers of extract
Raise(cls, text) ==
    /\ exc' = [cls |-> cls, text |-> text]
    /\ pc' = "extract_except"

\* line 72: import parselmouth
ExtractImport ==
    /\ pc = "extract_import"
    /\ \/ /\ pc' = "extract_mktemp"
          /\ UNCHANGED exc
       \/ Raise("ImportError", "No module named 'parselmouth'")
    /\ UNCHANGED <<audio, tempFile, pitch, features, voiced_ratio, engineCalls,
                   warnings, result, feature_sets, flattened, outcome, store>>
    /\ UNCHANGED elsewhere

\* line 75: tempfile.NamedTemporaryFile(delete=False, suffix='.wav')
ExtractMktemp ==
    /\ pc = "extract_mktemp"
    /\ \/ /\ tempFile' = "exists"
          /\ pc' = "extract_write"
          /\ UNCHANGED exc
       \/ /\ Raise("Exception", "cannot create temporary file")
          /\ UNCHANGED tempFile
    /\ UNCHANGED <<audio, pitch, features, voiced_ratio, engineCalls,
                   warnings, result, feature_sets, flattened, outcome, store>>
    /\ UNCHANGED elsewhere

\* line 76: sf.write(temp_audio_file.name, audio, sample_rate)
ExtractWrite ==
    /\ pc = "extract_write"
    /\ \/ /\ pc' = "extract_sound"
          /\ UNCHANGED exc
       \/ Raise("Exception", "error writing wav")
    /\ UNCHANGED <<audio, tempFile, pitch, features, voiced_ratio, engineCalls,
                   warnings, result, feature_sets, flattened, outcome, store>>
    /\ UNCHANGED elsewhere

\* line 79: parselmouth.Sound(temp_audio_file.name)
ExtractSound ==
    /\ pc = "extract_sound"
    /\ engineCalls' = Append(engineCalls, "Sound")
    /\ \/ /\ pc' = "extract_pitch"
          /\ UNCHANGED exc
       \/ Raise("Exception", "cannot read sound")
    /\ UNCHANGED <<audio, tempFile, pitch, features, voiced_ratio,
                   warnings, result, feature_sets, flattened, outcome, store>>
    /\ UNCHANGED elsewhere

\* lines 83-108: sound.to_pitch and the F0 biomarkers
ExtractPitch ==
    /\ pc = "extract_pitch"
    /\ engineCalls' = Append(engineCalls, "to_pitch")
    /\ \/ \E p \in PitchOutcomes :
            /\ pitch' = p
            /\ features' = Update(EmptyDict, F0Biomarkers(p))
            /\ voiced_ratio' = VoicedRatio(p)
            /\ warnings' = IF p.voiced > 0 THEN warnings
                           ELSE warnings \cup {"No voiced frames detected"}
            /\ pc' = "extract_quality"
            /\ UNCHANGED exc
       \/ /\ Raise("Exception", "pitch analysis failed")
          /\ UNCHANGED <<pitch, features, voiced_ratio, warnings>>
    /\ UNCHANGED <<audio, tempFile, result, feature_sets, flattened, outcome, store>>
    /\ UNCHANGED elsewhere

\* mutant of ExtractPerturbation: no inner handler, a failing engine call of
\* the block reaches the handlers of extract
ExtractPerturbationRaises ==
    /\ pc = "extract_quality"
    /\ pitch.voiced > MinVoicedFrames
    /\ \/ \E jl \in JitterLocals, sl \in ShimmerLocals :
            /\ features' = Update(features, MeasuredPerturbation(jl, sl))
            /\ engineCalls' = engineCalls \o PerturbationCalls
            /\ pc' = "extract_hnr"
            /\ UNCHANGED <<warnings, exc>>
       \/ \E failing \in 1..Len(PerturbationCalls) :
            /\ engineCalls' = engineCalls \o SubSeq(PerturbationCalls, 1, failing)
            /\ warnings' = warnings \cup {"Jitter/Shimmer calculation failed"}
            /\ Raise("Exception", "jitter failed")
            /\ UNCHANGED features
    /\ UNCHANGED <<audio, tempFile, pitch, voiced_ratio, result,
                   feature_sets, flattened, outcome, store>>
    /\ UNCHANGED elsewhere

\* lines 112-170: the jitter/shimmer block when len(voiced_frames) > 10
ExtractPerturbation ==
    /\ pc = "extract_quality"
    /\ pitch.voiced > MinVoicedFrames
    /\ \/ \E jl \in JitterLocals, sl \in ShimmerLocals :
            /\ features' = Update(features, MeasuredPerturbation(jl, sl))
            /\ engineCalls' = engineCalls \o PerturbationCalls
            /\ UNCHANGED warnings
       \/ \E failing \in 1..Len(PerturbationCalls) :
            /\ features' = Update(features, ZeroPerturbation)
            /\ engineCalls' = engineCalls \o SubSeq(PerturbationCalls, 1, failing)
            /\ warnings' = warnings \cup {"Jitter/Shimmer calculation failed"}
    /\ pc' = "extract_hnr"
    /\ UNCHANGED <<audio, tempFile, pitch, voiced_ratio, exc, result,
                   feature_sets, flattened, outcome, store>>
    /\ UNCHANGED elsewhere

\* lines 173-188: the HNR block
ExtractHnr ==
    /\ pc = "extract_hnr"
    /\ engineCalls' = Append(engineCalls, "to_harmonicity")
    /\ \/ \E h \in HnrMeans :
            /\ features' = Update(features, (HnrMean :> Num(h)) @@ (HnrStd :> Num(31)))
            /\ UNCHANGED warnings
       \/ /\ features' = Update(features, ZeroHnr)       \* every frame undefined
          /\ UNCHANGED warnings
       \/ /\ features' = Update(features, ZeroHnr)       \* the engine call raised
          /\ warnings' = warnings \cup {"HNR calculation failed"}
    /\ pc' = "extract_score"
    /\ UNCHANGED <<audio, tempFile, pitch, voiced_ratio, exc, result,
                   feature_sets, flattened, outcome, store>>
    /\ UNCHANGED elsewhere

\* lines 189-198: not more than 10 voiced frames
ExtractInsufficient ==
    /\ pc = "extract_quality"
    /\ ~(pitch.voiced > MinVoicedFrames)
    /\ features' = Update(features, InsufficientVoicedFill)
    /\ pc' = "extract_score"
    /\ UNCHANGED <<audio, tempFile, pitch, voiced_ratio, exc, engineCalls, warnings,
                   result, feature_sets, flattened, outcome, store>>
    /\ UNCHANGED elsewhere

\* lines 202-222: the score and the return statement of the try block
ExtractScore ==
    /\ pc = "extract_score"
    /\ LET scored == Update(features,
                        VocalStabilityScore :> Num(RoundedStabilityScore(features)))
       IN  /\ features' = scored
           /\ result' = SuccessFeatureSet(scored, voiced_ratio, pitch)
    /\ pc' = "extract_finally"
    /\ UNCHANGED <<audio, tempFile, pitch, voiced_ratio, exc, engineCalls, warnings,
                   feature_sets, flattened, outcome, store>>
    /\ UNCHANGED elsewhere

\* lines 224-280: except ImportError / except Exception
ExtractExcept ==
    /\ pc = "extract_except"
    /\ IF exc.cls = "ImportError"
       THEN /\ result' = UnavailableFeatureSet(exc)
            /\ warnings' = warnings \cup {"Parselmouth not available"}
       ELSE /\ result' = FailedFeatureSet(exc)
            /\ warnings' = warnings \cup {"Vocal analysis extraction failed"}
    /\ features' = FailureFeatures
    /\ pc' = "extract_finally"
    /\ UNCHANGED <<audio, tempFile, pitch, voiced_ratio, exc, engineCalls,
                   feature_sets, flattened, outcome, store>>
    /\ UNCHANGED elsewhere

\* mutant of Cleanup: no finally block, the file is never unlinked
CleanupLeak(file) == file

\* the temporary file after the finally block of lines 282-289
Cleanup(file) == IF file = "exists" THEN "deleted" ELSE file

\* lines 282-289, then VoiceAnalysisService.analyze appends the FeatureSet
ExtractFinally ==
    /\ pc = "extract_finally"
    /\ tempFile' = Cleanup(tempFile)
    /\ feature_sets' = Append(feature_sets, result)
    /\ pc' = "flatten"
    /\ UNCHANGED <<audio, pitch, features, voiced_ratio, exc, engineCalls, warnings,
                   result, flattened, outcome, store>>
    /\ UNCHANGED elsewhere

-----------------------------------------------------------------------------
(* the extractors' own audio validation *)

\* BaseFeatureExtractor.validate_audio_quality: non-empty and at least 100 ms
BaseValidateAudioQuality(a, sample_rate) ==
    /\ a.len # 0
    /\ ~(10 * a.len < sample_rate)

\* VocalAnalysisExtractor.validate_audio_quality: the base check and duration >= 1.0 s
VocalValidateAudioQuality(a, sample_rate) ==
    /\ BaseValidateAudioQuality(a, sample_rate)
    /\ ~(a.len < sample_rate)

-----------------------------------------------------------------------------
(* services/audio_processing_service.py *)

\* config['audio']['min_duration_seconds'] = 0.5 and ['max_duration_seconds'] = 60.0,
\* in tenths of a second; config['quality_gate']['min_rms_threshold'] = 0.001 in millionths
MinDurationTenths == 5
MaxDurationTenths == 600
MinRmsThreshold == 1000

\* mutant of ValidateAudioQuality: the lower bounds are exclusive
ValidateAudioQualityExclusive(a, sample_rate) ==
    IF 10 * a.len <= MinDurationTenths * sample_rate THEN FALSE
    ELSE IF 10 * a.len > MaxDurationTenths * sample_rate THEN FALSE
    ELSE IF a.rms <= MinRmsThreshold THEN FALSE
    ELSE TRUE

\* AudioProcessingService.validate_audio_quality on a well-formed buffer:
\* duration = len / sample_rate compared as len * 10 against tenths * sample_rate
ValidateAudioQuality(a, sample_rate) ==
    IF 10 * a.len < MinDurationTenths * sample_rate THEN FALSE
    ELSE IF 10 * a.len > MaxDurationTenths * sample_rate THEN FALSE
    ELSE IF a.rms < MinRmsThreshold THEN FALSE
    ELSE TRUE

\* the warning validate_audio_quality logs when it rejects
GateWarning(a, sample_rate) ==
    IF 10 * a.len < MinDurationTenths * sample_rate THEN "Audio too short"
    ELSE IF 10 * a.len > MaxDurationTenths * sample_rate THEN "Audio too long"
    ELSE "Audio too quiet"

\* AudioProcessingService._build_processing_metadata; the frame counts:
\* total_frames = int(duration / 0.01), voiced_frames = int(total_frames * ratio)
\* when the ratio is truthy and total_frames otherwise
BuildProcessingMetadata(a, sample_rate, ratio) ==
    LET total == (a.len * 100) \div sample_rate
    IN  [sample_rate |-> sample_rate,
         total_frames |-> total,
         voiced_frames |-> IF Truthy(ratio) THEN (total * ratio.n) \div ratio.d
                           ELSE total]

\* dict.get(key, default)
Get(dict, key, default) == IF key \in DOMAIN dict THEN dict[key] ELSE default

-----------------------------------------------------------------------------
(* core/infrastructure/utilities/firebase_utils.py *)

\* key.endswith('_error_type')
EndsWithErrorType(key) ==
    /\ Len(key) >= 3
    /\ key[Len(key) - 1] = "error"
    /\ key[Len(key)] = "type"

\* mutant of HasErrors: a zero-filled jitter_local counts as an error as well
HasErrorsOrZeroFilled(feats) ==
    \/ \E key \in DOMAIN feats : EndsWithErrorType(key) /\ Truthy(feats[key])
    \/ \E key \in DOMAIN feats :
          /\ Len(key) >= 2
          /\ SubSeq(key, Len(key) - 1, Len(key)) = JitterLocal
          /\ ~Truthy(feats[key])

\* has_errors of store_voice_analysis_results
HasErrors(feats) == \E key \in DOMAIN feats : EndsWithErrorType(key) /\ Truthy(feats[key])

\* insight_data of store_voice_analysis_results
InsightData(feats, processing_metadata) ==
    [status |-> IF ~HasErrors(feats) THEN "completed" ELSE "completed_with_warnings",
     processing_metadata |-> processing_metadata,
     features |-> feats]

-----------------------------------------------------------------------------
(* AudioProcessingService._load_and_process_audio *)

\* lines 147-155: sf.read, convert_to_mono, resample_audio, calculate_duration
LoadAudio ==
    /\ pc = "load"
    /\ \/ \E a \in AudioInputs :
            /\ audio' = a
            /\ pc' = "gate"
            /\ UNCHANGED outcome
       \/ /\ outcome' = "raised"          \* reading or resampling raised
          /\ pc' = "done"
          /\ UNCHANGED audio
    /\ UNCHANGED <<tempFile, pitch, features, voiced_ratio, exc, engineCalls,
                   warnings, result, feature_sets, flattened, store>>
    /\ UNCHANGED elsewhere

\* mutant of QualityGate: the rejection is logged but `return None` is missing
QualityGateNoReturn ==
    /\ pc = "gate"
    /\ warnings' = IF ValidateAudioQuality(audio, TargetSampleRate) THEN warnings
                   ELSE warnings \cup {GateWarning(audio, TargetSampleRate),
                                       "Audio failed quality gate"}
    /\ pc' = "extract_import"
    /\ UNCHANGED <<audio, tempFile, pitch, features, voiced_ratio, exc, engineCalls,
                   result, feature_sets, flattened, outcome, store>>
    /\ UNCHANGED elsewhere

\* lines 156-158: the quality gate
QualityGate ==
    /\ pc = "gate"
    /\ IF ValidateAudioQuality(audio, TargetSampleRate)
       THEN /\ pc' = "extract_import"
            /\ UNCHANGED <<outcome, warnings>>
       ELSE /\ warnings' = warnings \cup {GateWarning(audio, TargetSampleRate),
                                          "Audio failed quality gate"}
            /\ outcome' = "skip"          \* return None
            /\ pc' = "done"
    /\ UNCHANGED <<audio, tempFile, pitch, features, voiced_ratio, exc, engineCalls,
                   result, feature_sets, flattened, store>>
    /\ UNCHANGED elsewhere

\* line 159: VoiceAnalysisService.analyze_for_firestore after analyze() returned
AnalyzeForFirestore ==
    /\ pc = "flatten"
    /\ flattened' = FormatForFirestore(feature_sets)
    /\ pc' = "store"
    /\ UNCHANGED <<audio, tempFile, pitch, features, voiced_ratio, exc, engineCalls,
                   warnings, result, feature_sets, outcome, store>>
    /\ UNCHANGED elsewhere

\* lines 161-173: processing metadata and store_voice_analysis_results
StoreResults ==
    /\ pc = "store"
    /\ LET ratio == Get(flattened, ExtractorName \o <<"metadata", "voiced", "ratio">>, Num(0))
           md == BuildProcessingMetadata(audio, TargetSampleRate, ratio)
       IN  \/ /\ store' = Append(store, InsightData(flattened, md))
              /\ outcome' = "stored"
           \/ /\ outcome' = "raised"      \* the Firestore write raised
              /\ UNCHANGED store
    /\ pc' = "done"
    /\ UNCHANGED <<audio, tempFile, pitch, features, voiced_ratio, exc, engineCalls,
                   warnings, result, feature_sets, flattened>>
    /\ UNCHANGED elsewhere

-----------------------------------------------------------------------------
(* the pipeline specification: one recording through _load_and_process_audio *)

Init ==
    /\ pc = "load"
    /\ audio = [len |-> 0, rms |-> 0]
    /\ tempFile = "none"
    /\ pitch = NoPitch
    /\ features = EmptyDict
    /\ voiced_ratio = Num(0)
    /\ exc = NoExc
    /\ engineCalls = <<>>
    /\ warnings = {}
    /\ result = FeatureSet(<<>>, NoneV, EmptyDict, NoMetadata, NoneV, NoneV)
    /\ feature_sets = <<>>
    /\ flattened = EmptyDict
    /\ outcome = "running"
    /\ store = <<>>
    /\ args = NoArgs
    /\ ret = NoneV
    /\ downloadFile = "none"
    /\ temp_file_path = NoneV
    /\ NoCalls

Next ==
    \/ LoadAudio
    \/ QualityGate
    \/ ExtractImport
    \/ ExtractMktemp
    \/ ExtractWrite
    \/ ExtractSound
    \/ ExtractPitch
    \/ ExtractPerturbation
    \/ ExtractHnr
    \/ ExtractInsufficient
    \/ ExtractScore
    \/ ExtractExcept
    \/ ExtractFinally
    \/ AnalyzeForFirestore
    \/ StoreResults

Spec == Init /\ [][Next]_vars

-----------------------------------------------------------------------------
(* flatten_feature_sets as a function of its argument: SpecFlatten draws a   *)
(* list of FeatureSets and applies FeatureFormatter.flatten_feature_sets.    *)

\* longest list of FeatureSets passed to flatten_feature_sets
MaxSets == 2

\* extractor names: one is a '_'-prefix of another, one is unrelated
FlattenNames == {<<"vocal">>, <<"vocal", "analysis">>, <<"formant", "analysis">>}

\* feature keys: an ordinary one, and two that spell entries the formatter writes itself
FlattenKeys == {<<"f0", "mean">>, <<"version">>, <<"analysis", "version">>}

FlattenDicts == {EmptyDict} \cup {k :> Num(2200) : k \in FlattenKeys}

FlattenMetadatas == {NoMetadata, FeatureMetadata(<<"voiced", "ratio">> :> Rat(4, 5))}

FlattenErrors == {<<NoneV, NoneV>>, <<Str("extraction_failed"), Str("Audio too short")>>}

FlattenUniverse ==
    {FeatureSet(e, Str("1.0"), d, m, er[1], er[2]) :
        e \in FlattenNames, d \in FlattenDicts, m \in FlattenMetadatas, er \in FlattenErrors}

FlattenInputs == UNION {[1..n -> FlattenUniverse] : n \in 0..MaxSets}

InitFlatten ==
    /\ pc = "flatten_call"
    /\ feature_sets \in FlattenInputs
    /\ audio = [len |-> 0, rms |-> 0]
    /\ tempFile = "none"
    /\ pitch = NoPitch
    /\ features = EmptyDict
    /\ voiced_ratio = Num(0)
    /\ exc = NoExc
    /\ engineCalls = <<>>
    /\ warnings = {}
    /\ result = FeatureSet(<<>>, NoneV, EmptyDict, NoMetadata, NoneV, NoneV)
    /\ flattened = EmptyDict
    /\ outcome = "running"
    /\ store = <<>>
    /\ args = NoArgs
    /\ ret = NoneV
    /\ downloadFile = "none"
    /\ temp_file_path = NoneV
    /\ NoCalls

\* FeatureFormatter.flatten_feature_sets(feature_sets)
FlattenCall ==
    /\ pc = "flatten_call"
    /\ flattened' = FlattenFeatureSets(feature_sets)
    /\ pc' = "flatten_done"
    /\ UNCHANGED <<audio, tempFile, pitch, features, voiced_ratio, exc, engineCalls,
                   warnings, result, feature_sets, outcome, store>>
    /\ UNCHANGED elsewhere

NextFlatten == FlattenCall

SpecFlatten == InitFlatten /\ [][NextFlatten]_vars

-----------------------------------------------------------------------------
(* Properties of VocalAnalysisExtractor.extract and of the pipeline (Spec)  *)

\* extract has returned to VoiceAnalysisService.analyze with `result`
ExtractReturned == pc \in {"flatten", "store", "done"} /\ feature_sets = <<result>>

\* the position is inside extract
InExtract == pc \in {"extract_import", "extract_mktemp", "extract_write", "extract_sound",
                     "extract_pitch", "extract_quality", "extract_hnr", "extract_score",
                     "extract_except", "extract_finally"}

\* the record analyze_for_firestore returned is available
RecordReturned == pc \in {"store", "done"} /\ feature_sets = <<result>>

ErrorTypeKey == NamespacedKey(ExtractorName, <<"error", "type">>)
ErrorMessageKey == NamespacedKey(ExtractorName, <<"error", "message">>)

\* C1: whenever extract returns a FeatureSet with error set, its features hold
\* every name of get_feature_names() (all 14) with value 0.0.
C1_ErrorZeroFillsEveryCanonicalName ==
    (ExtractReturned /\ result.error # NoneV) =>
        \A i \in 1..Len(GetFeatureNames) :
            /\ GetFeatureNames[i] \in DOMAIN result.features
            /\ result.features[GetFeatureNames[i]] = Num(0)

C4_PartialFailureKeepsF0 ==
    (/\ ExtractReturned
     /\ \/ "Jitter/Shimmer calculation failed" \in warnings
        \/ "HNR calculation failed" \in warnings) =>
        /\ result.error = NoneV
        /\ result.error_message = NoneV
        /\ result.features[F0Mean] = Num(pitch.mean)
        /\ result.features[F0Std] = Num(pitch.std)
        /\ result.features[F0Confidence] =
               Num(RoundHalfEven(pitch.voiced * 1000, pitch.frames))

\* C4 witness: both blocks failed on a fully voiced recording
C4_Witness ==
    /\ ExtractReturned
    /\ "Jitter/Shimmer calculation failed" \in warnings
    /\ "HNR calculation failed" \in warnings
    /\ result.features[F0Mean] = Num(2200)
    /\ result.features[F0Confidence] = Num(1000)

\* C5: when the quality gate rejects the audio the pipeline returns None
\* without raising, never invokes the extractor and never writes to the store;
\* extractor and store are reached only after the gate returned true.
C5_RejectedAudioIsSkipped ==
    /\ "Audio failed quality gate" \in warnings =>
          /\ pc = "done" /\ outcome = "skip"
          /\ engineCalls = <<>> /\ tempFile = "none"
          /\ feature_sets = <<>> /\ flattened = EmptyDict /\ store = <<>>
    /\ (pc \notin {"load", "gate"} /\ outcome # "raised"
            /\ ~ValidateAudioQuality(audio, TargetSampleRate)) =>
          "Audio failed quality gate" \in warnings
    /\ (InExtract \/ engineCalls # <<>> \/ feature_sets # <<>> \/ store # <<>>) =>
          ValidateAudioQuality(audio, TargetSampleRate)

\* C5 witness: a one-second recording below the RMS threshold was skipped
C5_Witness ==
    /\ pc = "done"
    /\ outcome = "skip"
    /\ audio = [len |-> 48000, rms |-> 999]

\* C6: in the pipeline, extract produces measured features only for audio that
\* satisfies VocalAnalysisExtractor.validate_audio_quality (duration >= 1.0 s).
C6_ShortAudioNeverAnalysed ==
    (engineCalls # <<>> \/ (ExtractReturned /\ result.error = NoneV)) =>
        VocalValidateAudioQuality(audio, TargetSampleRate)

-----------------------------------------------------------------------------
(* Properties of FeatureFormatter.flatten_feature_sets                       *)

\* C7: for every FeatureSet with extractor name E passed to
\* flatten_feature_sets and every key k of its features, whatever the key
\* string, the returned record contains E_k holding exactly features[k].
C7_RoundTripNamespacing ==
    pc = "flatten_done" =>
        \A i \in 1..Len(feature_sets) :
            \A k \in DOMAIN feature_sets[i].features :
                LET nk == NamespacedKey(feature_sets[i].extractor, k)
                IN  /\ nk \in DOMAIN flattened
                    /\ flattened[nk] = feature_sets[i].features[k]

\* the record keys flatten_feature_sets emits for one FeatureSet
EmittedKeys(fs) == DOMAIN FlattenOne(EmptyDict, fs)

\* C8: for any two FeatureSets with distinct extractor names the sets of
\* record keys emitted for them (features, version, error, metadata) are disjoint.
C8_DistinctNamesDisjointKeys ==
    pc = "flatten_done" =>
        \A i, j \in 1..Len(feature_sets) :
            feature_sets[i].extractor # feature_sets[j].extractor =>
                EmittedKeys(feature_sets[i]) \cap EmittedKeys(feature_sets[j]) = {}

C10_UnsetMetadataOmitted ==
    RecordReturned =>
        \A i \in 1..Len(MetadataFields) :
            NamespacedKey(ExtractorName, <<"metadata">> \o MetadataFields[i])
                    \in DOMAIN flattened
                => MetadataFields[i] \in result.metadata.given

\* the lists obtained from list by reordering its elements
Reorderings(list) ==
    {[i \in 1..Len(list) |-> list[p[i]]] : p \in Permutations(1..Len(list))}

\* the extractor names of the list are pairwise distinct
DistinctNames(list) ==
    \A i, j \in 1..Len(list) : i # j => list[i].extractor # list[j].extractor

\* C11: flatten_feature_sets is pure and order-independent: for a list of
\* FeatureSets with pairwise distinct extractor names every permutation of the
\* list yields the same record, and the call leaves its input unmodified.
C11_OrderIndependent ==
    /\ [](pc = "flatten_done" /\ DistinctNames(feature_sets) =>
            \A list \in Reorderings(feature_sets) : FlattenFeatureSets(list) = flattened)
    /\ [][feature_sets' = feature_sets]_vars

-----------------------------------------------------------------------------
(* _calculate_vocal_stability_score as a function of its argument: SpecScore *)
(* draws a feature mapping and a configured threshold and applies the scorer *)

\* the largest measure and threshold tried
LargeMeasure == 1000000

\* f0_confidence in [0, 100], in tenths
ScoreConfidences == {0, 300, 301, 900, 901, 1000}

\* jitter_local and shimmer_local in thousandths of a percent, around the tiers
ScoreJitters == {-500, 0, 1, 500, 999, 1000, 1999, 2000, 3500, 4999, 5000, 8000, LargeMeasure}
ScoreShimmers == {-500, 0, 1, 500, 2500, 3999, 4000, 5999, 6000, 8000, 9999, 10000,
                  15000, LargeMeasure}

\* hnr_mean in tenths of a dB, around the tiers
ScoreHnrs == {-50, 0, 80, 99, 100, 149, 150, 199, 200, 220, 300, 301, 350, LargeMeasure}

\* excellent_hnr_threshold as configured, in tenths of a dB
ScoreThresholds == {-100, 50, ExcellentHnrThreshold, 250, LargeMeasure}

\* a mapping holding key when a value is given and lacking it otherwise
Entry(key, given, n) == IF given THEN key :> Num(n) ELSE EmptyDict

ScoreMappings ==
    {(F0Confidence :> Num(c)) @@ Entry(JitterLocal, j[1], j[2])
        @@ Entry(ShimmerLocal, sh[1], sh[2]) @@ Entry(HnrMean, h[1], h[2]) :
        c \in ScoreConfidences,
        j \in {<<FALSE, 0>>} \cup ({TRUE} \X ScoreJitters),
        sh \in {<<FALSE, 0>>} \cup ({TRUE} \X ScoreShimmers),
        h \in {<<FALSE, 0>>} \cup ({TRUE} \X ScoreHnrs)}

InitScore ==
    /\ pc = "score_call"
    /\ args \in [features : ScoreMappings, threshold : ScoreThresholds]
    /\ ret = NoneV
    /\ audio = [len |-> 0, rms |-> 0]
    /\ tempFile = "none"
    /\ pitch = NoPitch
    /\ features = EmptyDict
    /\ voiced_ratio = Num(0)
    /\ exc = NoExc
    /\ engineCalls = <<>>
    /\ warnings = {}
    /\ result = FeatureSet(<<>>, NoneV, EmptyDict, NoMetadata, NoneV, NoneV)
    /\ feature_sets = <<>>
    /\ flattened = EmptyDict
    /\ outcome = "running"
    /\ store = <<>>
    /\ downloadFile = "none"
    /\ temp_file_path = NoneV
    /\ NoCalls

\* self._calculate_vocal_stability_score(features), in thousandths of a point
ScoreCall ==
    /\ pc = "score_call"
    /\ ret' = Num(CalculateVocalStabilityScore(args.features, args.threshold))
    /\ pc' = "score_done"
    /\ UNCHANGED <<audio, tempFile, pitch, features, voiced_ratio, exc, engineCalls,
                   warnings, result, feature_sets, flattened, outcome, store, args>>
    /\ UNCHANGED outside

NextScore == ScoreCall

SpecScore == InitScore /\ [][NextScore]_vars

\* C12: for f0_confidence in [0,100], any jitter_local, shimmer_local and
\* hnr_mean (zero, negative, absent, arbitrarily large) and any configured
\* threshold, the score is in [0,100], and so is its rounding to one decimal.
C12_ScoreInRange ==
    pc = "score_done" =>
        /\ ret.n >= 0 /\ ret.n <= 100 * 1000
        /\ RoundHalfEven(ret.n, 100) \in 0..1000

\* C12 witness: a huge jitter, a negative HNR, no shimmer and a negative threshold
C12_Witness ==
    /\ pc = "score_done"
    /\ GetNum(args.features, JitterLocal) = LargeMeasure
    /\ GetNum(args.features, HnrMean) < 0
    /\ ShimmerLocal \notin DOMAIN args.features
    /\ args.threshold < 0
    /\ ret = Num(40 * 1000 + 4000)

\* jitter_local over [0.5, 8] %, shimmer_local over [0.5, 15] %, hnr_mean over [8, 22] dB
JitterRange == {j \in ScoreJitters : 500 <= j /\ j <= 8000}
ShimmerRange == {sh \in ScoreShimmers : 500 <= sh /\ sh <= 15000}
HnrRange == {h \in ScoreHnrs : 80 <= h /\ h <= 220}

\* the mapping of the call with one measure replaced, the others held fixed
With(key, n) == Update(args.features, key :> Num(n))

\* C13 as stated: raising jitter_local (shimmer_local) within the range strictly
\* lowers its component unless both values are at the floor 20; raising hnr_mean
\* strictly raises its component unless both values are at the ceiling 100.
C13_StrictlyMonotone ==
    pc = "score_done" =>
        /\ \A b \in JitterRange :
              LET a == GetNum(args.features, JitterLocal)
                  ca == JitterComponent(args.features)
                  cb == JitterComponent(With(JitterLocal, b))
              IN  (a \in JitterRange /\ a < b) => (ca > cb \/ (ca = 200 * 20 /\ cb = 200 * 20))
        /\ \A b \in ShimmerRange :
              LET a == GetNum(args.features, ShimmerLocal)
                  ca == ShimmerComponent(args.features)
                  cb == ShimmerComponent(With(ShimmerLocal, b))
              IN  (a \in ShimmerRange /\ a < b) => (ca > cb \/ (ca = 200 * 20 /\ cb = 200 * 20))
        /\ \A b \in HnrRange :
              LET a == GetNum(args.features, HnrMean)
                  ca == HnrComponent(args.features, args.threshold)
                  cb == HnrComponent(With(HnrMean, b), args.threshold)
              IN  (a \in HnrRange /\ a < b) => (ca < cb \/ (ca = 200 * 100 /\ cb = 200 * 100))

\* C13 as amended: raising jitter_local (shimmer_local) within the range never
\* raises its component nor the score, and raising hnr_mean never lowers its
\* component nor the score.
C13_Monotone ==
    pc = "score_done" =>
        /\ \A b \in JitterRange :
              LET a == GetNum(args.features, JitterLocal)
              IN  (a \in JitterRange /\ a < b) =>
                    /\ JitterComponent(args.features) >= JitterComponent(With(JitterLocal, b))
                    /\ ret.n >= CalculateVocalStabilityScore(With(JitterLocal, b), args.threshold)
        /\ \A b \in ShimmerRange :
              LET a == GetNum(args.features, ShimmerLocal)
              IN  (a \in ShimmerRange /\ a < b) =>
                    /\ ShimmerComponent(args.features) >= ShimmerComponent(With(ShimmerLocal, b))
                    /\ ret.n >= CalculateVocalStabilityScore(With(ShimmerLocal, b), args.threshold)
        /\ \A b \in HnrRange :
              LET a == GetNum(args.features, HnrMean)
              IN  (a \in HnrRange /\ a < b) =>
                    /\ HnrComponent(args.features, args.threshold)
                          <= HnrComponent(With(HnrMean, b), args.threshold)
                    /\ ret.n <= CalculateVocalStabilityScore(With(HnrMean, b), args.threshold)

\* C13 witness: a jitter of 3.5 % scored on the descending segment (50 of 100)
C13_Witness ==
    /\ pc = "score_done"
    /\ GetNum(args.features, JitterLocal) = 3500
    /\ JitterComponent(args.features) = 200 * 50
    /\ GetNum(args.features, HnrMean) = 99
    /\ GetNum(args.features, ShimmerLocal) = 8000

\* C14: with the configured threshold, f0_confidence > 90, jitter_local and
\* shimmer_local from 0 up to below the excellent tiers and hnr_mean > 30 dB give
\* a vocal_stability_score > 85; pathological measures with f0_confidence <= 30
\* give a score < 30.
C14_ToneScoresHigh ==
    (pc = "score_done" /\ args.threshold = ExcellentHnrThreshold) =>
        LET f == args.features
            score == RoundHalfEven(ret.n, 100)
            measured == {JitterLocal, ShimmerLocal, HnrMean} \subseteq DOMAIN f
        IN  /\ (/\ measured
                 /\ f[F0Confidence].n > 900
                 /\ f[JitterLocal].n >= 0 /\ f[JitterLocal].n < 1000
                 /\ f[ShimmerLocal].n >= 0 /\ f[ShimmerLocal].n < 4000
                 /\ f[HnrMean].n > 300) => score > 850
            /\ (/\ measured
                 /\ f[F0Confidence].n <= 300
                 /\ f[JitterLocal].n >= 5000
                 /\ f[ShimmerLocal].n >= 10000
                 /\ f[HnrMean].n < 100) => score < 300

-----------------------------------------------------------------------------
(* Properties of the quality gate *)

\* the gate returned true: the pipeline went on to the extractor
GatePassed == InExtract \/ feature_sets # <<>>

\* the gate returned false: the pipeline returned None
GateRejected == pc = "done" /\ outcome = "skip"

-----------------------------------------------------------------------------
(* The quality gates as functions of their arguments: SpecGate draws an audio *)
(* argument and a sample rate, malformed ones included, and calls one gate.   *)

\* a returned bool and a raised exception as values of `ret`
BoolV(b) == [kind |-> "bool", n |-> IF b THEN 1 ELSE 0, d |-> 1, s |-> ""]
Raised(cls) == [kind |-> "raised", n |-> 0, d |-> 1, s |-> cls]

\* the logging methods UnifiedLogger defines
UnifiedLoggerMethods == {"debug", "info", "warning", "error", "performance", "start_operation"}

\* the audio argument: None, or an array of len samples with the given RMS
GateAudios ==
    {[none |-> TRUE, len |-> 0, rms |-> 0]}
    \cup [none : {FALSE}, len : {0, 3, 23999, 24000, 48000, 2880001}, rms : {0, 999, 1000, 50000}]

GateRates == {-48000, -1, 0, 1, TargetSampleRate}

\* utilities.calculate_duration: "ValueError" for a rate <= 0, "TypeError" for
\* len(None), "ok" otherwise
CalculateDuration(a, sample_rate) ==
    IF sample_rate <= 0 THEN "ValueError"
    ELSE IF a.none THEN "TypeError"
    ELSE "ok"

InitGate ==
    /\ pc = "gate_call"
    /\ args \in [fn : {"validate_audio_quality", "fast_quality_gate"},
                  audio : GateAudios, sample_rate : GateRates]
    /\ ret = NoneV
    /\ audio = [len |-> 0, rms |-> 0]
    /\ tempFile = "none"
    /\ pitch = NoPitch
    /\ features = EmptyDict
    /\ voiced_ratio = Num(0)
    /\ exc = NoExc
    /\ engineCalls = <<>>
    /\ warnings = {}
    /\ result = FeatureSet(<<>>, NoneV, EmptyDict, NoMetadata, NoneV, NoneV)
    /\ feature_sets = <<>>
    /\ flattened = EmptyDict
    /\ outcome = "running"
    /\ store = <<>>
    /\ downloadFile = "none"
    /\ temp_file_path = NoneV
    /\ NoCalls

\* AudioProcessingService.validate_audio_quality(audio, sample_rate): the try
\* block, and the handler that calls self.logger.exception on a UnifiedLogger
ValidateAudioQualityCall ==
    /\ pc = "gate_call"
    /\ args.fn = "validate_audio_quality"
    /\ IF CalculateDuration(args.audio, args.sample_rate) = "ok"
       THEN IF ValidateAudioQuality(args.audio, args.sample_rate)
            THEN /\ ret' = BoolV(TRUE)
                 /\ UNCHANGED warnings
            ELSE /\ ret' = BoolV(FALSE)
                 /\ warnings' = warnings \cup {GateWarning(args.audio, args.sample_rate)}
       ELSE IF "exception" \in UnifiedLoggerMethods
            THEN /\ ret' = BoolV(FALSE)
                 /\ warnings' = warnings \cup {"Quality gate failed"}
            ELSE /\ ret' = Raised("AttributeError")
                 /\ UNCHANGED warnings
    /\ pc' = "gate_done"
    /\ UNCHANGED <<audio, tempFile, pitch, features, voiced_ratio, exc, engineCalls,
                   result, feature_sets, flattened, outcome, store, args>>
    /\ UNCHANGED outside

\* main.fast_quality_gate(audio, sample_rate), logging to a standard logger
FastQualityGateCall ==
    /\ pc = "gate_call"
    /\ args.fn = "fast_quality_gate"
    /\ IF args.sample_rate <= 0
       THEN /\ ret' = BoolV(FALSE)
            /\ warnings' = warnings \cup {"Invalid sample rate"}
       ELSE IF CalculateDuration(args.audio, args.sample_rate) # "ok"
       THEN /\ ret' = BoolV(FALSE)
            /\ warnings' = warnings \cup {"Quality gate failed"}
       ELSE IF ValidateAudioQuality(args.audio, args.sample_rate)
       THEN /\ ret' = BoolV(TRUE)
            /\ UNCHANGED warnings
       ELSE /\ ret' = BoolV(FALSE)
            /\ warnings' = warnings \cup {GateWarning(args.audio, args.sample_rate)}
    /\ pc' = "gate_done"
    /\ UNCHANGED <<audio, tempFile, pitch, features, voiced_ratio, exc, engineCalls,
                   result, feature_sets, flattened, outcome, store, args>>
    /\ UNCHANGED outside

NextGate == ValidateAudioQualityCall \/ FastQualityGateCall

SpecGate == InitGate /\ [][NextGate]_vars

\* C16: for a zero or negative sample rate, None audio or an empty array, both
\* gates return False, never raise, and log the reason.
C16_GateNeverRaises ==
    (/\ pc = "gate_done"
     /\ \/ args.sample_rate <= 0
        \/ args.audio.none
        \/ args.audio.len = 0) =>
        /\ ret = BoolV(FALSE)
        /\ warnings # {}

-----------------------------------------------------------------------------
(* AudioProcessingService.process_audio_file: SpecProcess runs one storage   *)
(* event through the download, _load_and_process_audio and the finally block *)

InitProcess ==
    /\ pc = "process_start"
    /\ audio = [len |-> 0, rms |-> 0]
    /\ tempFile = "none"
    /\ pitch = NoPitch
    /\ features = EmptyDict
    /\ voiced_ratio = Num(0)
    /\ exc = NoExc
    /\ engineCalls = <<>>
    /\ warnings = {}
    /\ result = FeatureSet(<<>>, NoneV, EmptyDict, NoMetadata, NoneV, NoneV)
    /\ feature_sets = <<>>
    /\ flattened = EmptyDict
    /\ outcome = "running"
    /\ store = <<>>
    /\ args = NoArgs
    /\ ret = NoneV
    /\ downloadFile = "none"
    /\ temp_file_path = NoneV
    /\ NoCalls

\* lines 189-196: a file that is not a Sage .wav is skipped
ProcessSkipInvalid ==
    /\ pc = "process_start"
    /\ outcome' = "skip"
    /\ pc' = "process_returned"
    /\ UNCHANGED <<audio, tempFile, pitch, features, voiced_ratio, exc, engineCalls,
                   warnings, result, feature_sets, flattened, store, args, ret,
                   downloadFile, temp_file_path>>
    /\ UNCHANGED concurrent

\* line 207: tempfile.NamedTemporaryFile(delete=False, suffix=WAV_EXTENSION)
ProcessMktemp ==
    /\ pc = "process_start"
    /\ \/ /\ downloadFile' = "exists"
          /\ pc' = "process_download"
          /\ UNCHANGED outcome
       \/ /\ outcome' = "raised"         \* the file could not be created
          /\ pc' = "process_finally"
          /\ UNCHANGED downloadFile
    /\ UNCHANGED <<audio, tempFile, pitch, features, voiced_ratio, exc, engineCalls,
                   warnings, result, feature_sets, flattened, store, args, ret,
                   temp_file_path>>
    /\ UNCHANGED concurrent

\* lines 208-211: bucket, blob, download_to_filename, then temp_file_path is set
ProcessDownload ==
    /\ pc = "process_download"
    /\ \/ /\ temp_file_path' = Str("temp_file.name")
          /\ pc' = "load"
          /\ UNCHANGED outcome
       \/ /\ outcome' = "raised"         \* the blob download raised
          /\ pc' = "process_finally"
          /\ UNCHANGED temp_file_path
    /\ UNCHANGED <<audio, tempFile, pitch, features, voiced_ratio, exc, engineCalls,
                   warnings, result, feature_sets, flattened, store, args, ret,
                   downloadFile>>
    /\ UNCHANGED concurrent

\* lines 213-221: _load_and_process_audio returned or raised
ProcessAfterLoad ==
    /\ pc = "done"
    /\ pc' = "process_finally"
    /\ UNCHANGED <<audio, tempFile, pitch, features, voiced_ratio, exc, engineCalls,
                   warnings, result, feature_sets, flattened, outcome, store, args, ret,
                   downloadFile, temp_file_path>>
    /\ UNCHANGED concurrent

\* lines 223-231: the finally block, then the return or the re-raise
ProcessFinally ==
    /\ pc = "process_finally"
    /\ downloadFile' = IF temp_file_path # NoneV /\ downloadFile = "exists"
                       THEN "deleted" ELSE downloadFile
    /\ pc' = "process_returned"
    /\ UNCHANGED <<audio, tempFile, pitch, features, voiced_ratio, exc, engineCalls,
                   warnings, result, feature_sets, flattened, outcome, store, args, ret,
                   temp_file_path>>
    /\ UNCHANGED concurrent

NextProcess ==
    \/ ProcessSkipInvalid
    \/ ProcessMktemp
    \/ ProcessDownload
    \/ Next
    \/ ProcessAfterLoad
    \/ ProcessFinally

SpecProcess == InitProcess /\ [][NextProcess]_vars

\* C17: whenever process_audio_file created a temporary download file, the file
\* no longer exists when process_audio_file returns or raises, whichever step
\* failed.
C17_DownloadFileGone ==
    pc = "process_returned" => downloadFile # "exists"

-----------------------------------------------------------------------------
(* utilities.resample_audio as a function of its arguments (SpecResample)    *)

\* an array of n samples as a value of `ret`
AudioV(n) == [kind |-> "audio", n |-> n, d |-> 1, s |-> ""]

ResampleLens == {0, 3, 24000}
ResampleRates == {-48000, -1, 0, 16000, TargetSampleRate}

\* what librosa.resample(audio, orig_sr, target_sr) can do: for positive rates
\* an array of ceil(n * target_sr / orig_sr) samples; orig_sr = 0 divides by
\* zero; a ratio <= 0 asks for no samples and is rejected; two negative rates
\* give a positive ratio, and the resampler may reject them or not
LibrosaResample(n, orig_sr, target_sr) ==
    IF orig_sr > 0 /\ target_sr > 0
    THEN {AudioV((n * target_sr + orig_sr - 1) \div orig_sr)}
    ELSE IF orig_sr = 0 THEN {Raised("ZeroDivisionError")}
    ELSE IF orig_sr < 0 /\ target_sr < 0
    THEN {Raised("ParameterError"), AudioV((n * target_sr) \div orig_sr)}
    ELSE {Raised("ParameterError")}

InitResample ==
    /\ pc = "resample_call"
    /\ args \in [audio_len : ResampleLens, original_rate : ResampleRates,
                  target_rate : ResampleRates]
    /\ ret = NoneV
    /\ audio = [len |-> 0, rms |-> 0]
    /\ tempFile = "none"
    /\ pitch = NoPitch
    /\ features = EmptyDict
    /\ voiced_ratio = Num(0)
    /\ exc = NoExc
    /\ engineCalls = <<>>
    /\ warnings = {}
    /\ result = FeatureSet(<<>>, NoneV, EmptyDict, NoMetadata, NoneV, NoneV)
    /\ feature_sets = <<>>
    /\ flattened = EmptyDict
    /\ outcome = "running"
    /\ store = <<>>
    /\ downloadFile = "none"
    /\ temp_file_path = NoneV
    /\ NoCalls

\* resample_audio(audio, original_rate, target_rate)
ResampleCall ==
    /\ pc = "resample_call"
    /\ IF args.original_rate # args.target_rate
       THEN ret' \in LibrosaResample(args.audio_len, args.original_rate, args.target_rate)
       ELSE ret' = AudioV(args.audio_len)
    /\ pc' = "resample_done"
    /\ UNCHANGED <<audio, tempFile, pitch, features, voiced_ratio, exc, engineCalls,
                   warnings, result, feature_sets, flattened, outcome, store, args>>
    /\ UNCHANGED outside

NextResample == ResampleCall

SpecResample == InitResample /\ [][NextResample]_vars

\* C19: whenever the original or the target sample rate is zero or negative,
\* equal rates included, resample_audio fails with an error and returns no audio.
C19_DegenerateRateFails ==
    (pc = "resample_done" /\ (args.original_rate <= 0 \/ args.target_rate <= 0)) =>
        ret.kind = "raised"

-----------------------------------------------------------------------------
(* Properties of the voice-quality block of extract (Spec) *)

\* the four jitter, four shimmer and two HNR measures
QualityFeatureNames ==
    {JitterLocal, JitterAbsolute, JitterRap, JitterPpq5,
     ShimmerLocal, ShimmerDb, ShimmerApq3, ShimmerApq5, HnrMean, HnrStd}

\* the engine calls of the voice-quality block
QualityCalls == {PerturbationCalls[i] : i \in 1..Len(PerturbationCalls)} \cup {"to_harmonicity"}

\* C20: with at most 10 voiced frames extract makes no point-process, jitter,
\* shimmer or harmonicity call and every voice-quality feature is present in
\* the result with value 0.0; the measures are computed only above 10 frames.
C20_InsufficientVoicedZeroFills ==
    /\ (ExtractReturned /\ result.error = NoneV /\ pitch.voiced <= MinVoicedFrames) =>
          /\ \A i \in 1..Len(engineCalls) : engineCalls[i] \notin QualityCalls
          /\ \A name \in QualityFeatureNames :
                /\ name \in DOMAIN result.features
                /\ result.features[name] = Num(0)
    /\ (\E i \in 1..Len(engineCalls) : engineCalls[i] \in QualityCalls) =>
          pitch.voiced > MinVoicedFrames

-----------------------------------------------------------------------------
(* Concurrent calls of VocalAnalysisExtractor.extract (SpecConcurrent): each  *)
(* call has its own locals; the calls share the temporary directory and the   *)
(* engine, which measures the same values whenever it is given the same audio *)

\* number of concurrent extract calls
MaxCalls == 2

Calls == 1..MaxCalls

\* the audio buffers the calls are given
Buffers == {"a", "b"}

\* names tempfile can hand out
TempNames == 1..MaxCalls

\* what the engine can measure for a buffer: it fails, or it tracks the pitch
\* and measures the perturbation and harmonicity
EngineOutcomes ==
    {[fails |-> TRUE, pitch |-> NoPitch, jl |-> 0, sl |-> 0, h |-> 0]}
    \cup [fails : {FALSE},
          pitch : [frames : {MaxFrames}, voiced : {MinVoicedFrames, MaxFrames},
                   mean : F0Means, std : {52}],
          jl : {800}, sl : {2500}, h : {220}]

\* lines 83-222 on a loaded sound for which the engine measures o: the
\* FeatureSet extract returns
AnalysisResult(o) ==
    IF o.fails
    THEN FailedFeatureSet([cls |-> "Exception", text |-> "pitch analysis failed"])
    ELSE LET quality == IF o.pitch.voiced > MinVoicedFrames
                        THEN Update(MeasuredPerturbation(o.jl, o.sl),
                                    (HnrMean :> Num(o.h)) @@ (HnrStd :> Num(31)))
                        ELSE InsufficientVoicedFill
             measured == Update(F0Biomarkers(o.pitch), quality)
             scored == Update(measured,
                              VocalStabilityScore :> Num(RoundedStabilityScore(measured)))
         IN  SuccessFeatureSet(scored, VoicedRatio(o.pitch), o.pitch)

\* the FeatureSet of a call whose sound could not be loaded
UnreadableResult == FailedFeatureSet([cls |-> "Exception", text |-> "cannot read sound"])

\* mutant of FreshNames: every call is handed the same fixed path
FixedName(existing) == {1}

\* tempfile.NamedTemporaryFile creates a file under a name no existing file has
FreshNames(existing) == TempNames \ existing

NoResult == FeatureSet(<<>>, NoneV, EmptyDict, NoMetadata, NoneV, NoneV)

InitConcurrent ==
    /\ calls \in [Calls -> [pc : {"mktemp"}, audio : Buffers, name : {0},
                            loaded : {""}, result : {NoResult}]]
    /\ files = <<>>
    /\ engine \in [Buffers -> EngineOutcomes]
    /\ fileOps = {}
    /\ NoThreads
    /\ pc = "concurrent"
    /\ audio = [len |-> 0, rms |-> 0]
    /\ tempFile = "none"
    /\ pitch = NoPitch
    /\ features = EmptyDict
    /\ voiced_ratio = Num(0)
    /\ exc = NoExc
    /\ engineCalls = <<>>
    /\ warnings = {}
    /\ result = NoResult
    /\ feature_sets = <<>>
    /\ flattened = EmptyDict
    /\ outcome = "running"
    /\ store = <<>>
    /\ args = NoArgs
    /\ ret = NoneV
    /\ downloadFile = "none"
    /\ temp_file_path = NoneV

\* a file of the shared directory with one entry added or replaced
WithFile(name, content, creator) ==
    (name :> [content |-> content, creator |-> creator]) @@ files

\* the shared directory without the file name
WithoutFile(name) == [n \in DOMAIN files \ {name} |-> files[n]]

\* line 75 in call c
CallMktemp(c) ==
    /\ calls[c].pc = "mktemp"
    /\ \E name \in FreshNames(DOMAIN files) :
          /\ files' = WithFile(name, "", c)
          /\ calls' = [calls EXCEPT ![c].name = name, ![c].pc = "write"]
    /\ UNCHANGED <<engine, fileOps>>
    /\ UNCHANGED sequential
    /\ UNCHANGED clients

\* line 76 in call c: sf.write(temp_audio_file.name, audio, sample_rate)
CallWrite(c) ==
    /\ calls[c].pc = "write"
    /\ files' = WithFile(calls[c].name, calls[c].audio,
                         IF calls[c].name \in DOMAIN files
                         THEN files[calls[c].name].creator ELSE c)
    /\ calls' = [calls EXCEPT ![c].pc = "sound"]
    /\ UNCHANGED <<engine, fileOps>>
    /\ UNCHANGED sequential
    /\ UNCHANGED clients

\* line 79 in call c: parselmouth.Sound(temp_audio_file.name) reads the file
CallSound(c) ==
    /\ calls[c].pc = "sound"
    /\ IF calls[c].name \in DOMAIN files /\ files[calls[c].name].content # ""
       THEN /\ calls' = [calls EXCEPT ![c].loaded = files[calls[c].name].content,
                                      ![c].pc = "analyse"]
            /\ fileOps' = fileOps \cup {[call |-> c, op |-> "read",
                                         creator |-> files[calls[c].name].creator]}
       ELSE /\ calls' = [calls EXCEPT ![c].result = UnreadableResult,
                                      ![c].pc = "finally"]
            /\ UNCHANGED fileOps
    /\ UNCHANGED <<engine, files>>
    /\ UNCHANGED sequential
    /\ UNCHANGED clients

\* lines 83-280 in call c: the analysis of the loaded sound and the return
CallAnalyse(c) ==
    /\ calls[c].pc = "analyse"
    /\ calls' = [calls EXCEPT ![c].result = AnalysisResult(engine[calls[c].loaded]),
                              ![c].pc = "finally"]
    /\ UNCHANGED <<engine, files, fileOps>>
    /\ UNCHANGED sequential
    /\ UNCHANGED clients

\* lines 282-289 in call c: unlink temp_audio_file.name if it exists
CallFinally(c) ==
    /\ calls[c].pc = "finally"
    /\ IF calls[c].name \in DOMAIN files
       THEN /\ files' = WithoutFile(calls[c].name)
            /\ fileOps' = fileOps \cup {[call |-> c, op |-> "unlink",
                                         creator |-> files[calls[c].name].creator]}
       ELSE UNCHANGED <<files, fileOps>>
    /\ calls' = [calls EXCEPT ![c].pc = "returned"]
    /\ UNCHANGED engine
    /\ UNCHANGED sequential
    /\ UNCHANGED clients

NextConcurrent ==
    \E c \in Calls :
        \/ CallMktemp(c)
        \/ CallWrite(c)
        \/ CallSound(c)
        \/ CallAnalyse(c)
        \/ CallFinally(c)

SpecConcurrent == InitConcurrent /\ [][NextConcurrent]_vars

-----------------------------------------------------------------------------
(* Failures inside the voice-quality block of extract (Spec) *)

PerturbationFeatureNames ==
    {JitterLocal, JitterAbsolute, JitterRap, JitterPpq5,
     ShimmerLocal, ShimmerDb, ShimmerApq3, ShimmerApq5}

PerturbationFailed == "Jitter/Shimmer calculation failed" \in warnings

HnrFailed == "HNR calculation failed" \in warnings

\* C21 as stated: when an engine call of the jitter/shimmer block fails, every
\* jitter, shimmer and HNR feature of the returned FeatureSet is 0.0, the
\* warning is logged and the FeatureSet carries no error.
C21_FailureZeroFillsAllQuality ==
    (ExtractReturned /\ PerturbationFailed) =>
        /\ result.error = NoneV
        /\ \A name \in QualityFeatureNames :
              /\ name \in DOMAIN result.features
              /\ result.features[name] = Num(0)

\* C21 amended: when an engine call of the jitter/shimmer block fails, the
\* eight jitter and shimmer features of the returned FeatureSet are 0.0, the
\* FeatureSet carries no error, and hnr_mean and hnr_std are present with
\* whatever the HNR block produced.
C21_FailureZeroFillsPerturbation ==
    (ExtractReturned /\ PerturbationFailed) =>
        /\ result.error = NoneV
        /\ exc = NoExc
        /\ \A name \in PerturbationFeatureNames :
              /\ name \in DOMAIN result.features
              /\ result.features[name] = Num(0)
        /\ {HnrMean, HnrStd} \subseteq DOMAIN result.features

\* C21 witness: the block failed after more than 10 voiced frames and extract
\* returned a FeatureSet with a measured F0
C21_Witness ==
    /\ ExtractReturned
    /\ PerturbationFailed
    /\ pitch.voiced > MinVoicedFrames
    /\ result.features[F0Mean] = Num(2200)
    /\ result.features[JitterLocal] = Num(0)

\* C22: the two blocks fail independently. The HNR block always runs after
\* the jitter/shimmer block, failed or not, and changes no feature but
\* hnr_mean and hnr_std; when it fails both become 0.0, and nothing after it
\* changes any voice-quality feature.
C22_BlocksFailIndependently ==
    /\ [](ExtractReturned /\ HnrFailed =>
            result.features[HnrMean] = Num(0) /\ result.features[HnrStd] = Num(0))
    /\ [][(pc = "extract_quality" /\ pitch.voiced > MinVoicedFrames) =>
             (pc' = "extract_hnr")]_vars
    /\ [][(pc = "extract_hnr") =>
             (/\ engineCalls' = Append(engineCalls, "to_harmonicity")
              /\ \A name \in DOMAIN features \ {HnrMean, HnrStd} :
                    name \in DOMAIN features' /\ features'[name] = features[name])]_vars
    /\ [][(pc = "extract_score") =>
             (\A name \in QualityFeatureNames \cap DOMAIN features :
                 /\ features'[name] = features[name]
                 /\ result'.features[name] = features[name])]_vars

\* C22 witness: the jitter/shimmer block failed, the harmonicity was computed
\* all the same and its measured mean is reported
C22_Witness ==
    /\ ExtractReturned
    /\ PerturbationFailed
    /\ ~HnrFailed
    /\ result.features[JitterLocal] = Num(0)
    /\ result.features[HnrMean] = Num(220)
    /\ result.features[HnrStd] = Num(31)

-----------------------------------------------------------------------------
(* The scorer against its reference formula (SpecScore) *)

\* C23: the score equals 0.4*f0_confidence + 0.2*J + 0.2*S + 0.2*H with
\* J = 100 below 1.0, 80 below 2.0, 80 - 60*(j - 2)/3 below 5.0, else 20;
\* S = 100 below 4.0, 80 below 6.0, 80 - 60*(s - 6)/4 below 10.0, else 20;
\* H = 100 from the excellent threshold, 80 from 15, 60 from 10, else 40*h/10;
\* a component whose feature is absent or not greater than 0 contributes 0 and
\* the other weights stay as they are. J, S, H are in thousandths of a point,
\* the sum 10 * (0.4*c + 0.2*J + 0.2*S + 0.2*H) is compared with 10 * score.
C23_ScoreEqualsReference ==
    pc = "score_done" =>
        LET f == args.features
            present(key) == key \in DOMAIN f /\ f[key].n > 0
            c == IF F0Confidence \in DOMAIN f THEN 100 * f[F0Confidence].n ELSE 0
            j == f[JitterLocal].n
            sh == f[ShimmerLocal].n
            h == f[HnrMean].n
            J == IF ~present(JitterLocal) THEN 0
                 ELSE IF j < 1000 THEN 100000
                 ELSE IF j < 2000 THEN 80000
                 ELSE IF j < 5000 THEN 80000 - (60 * (j - 2000)) \div 3
                 ELSE 20000
            S == IF ~present(ShimmerLocal) THEN 0
                 ELSE IF sh < 4000 THEN 100000
                 ELSE IF sh < 6000 THEN 80000
                 ELSE IF sh < 10000 THEN 80000 - (60 * (sh - 6000)) \div 4
                 ELSE 20000
            H == IF ~present(HnrMean) THEN 0
                 ELSE IF h >= args.threshold THEN 100000
                 ELSE IF h >= 150 THEN 80000
                 ELSE IF h >= 100 THEN 60000
                 ELSE (40 * 100 * h) \div 10
        IN  10 * ret.n = 4 * c + 2 * J + 2 * S + 2 * H

\* C23 witness: both interpolated segments and the proportional HNR segment
\* at once, 0.4*90 + 0.2*50 + 0.2*50 + 0.2*32 = 62.4
C23_Witness ==
    /\ pc = "score_done"
    /\ args.features[F0Confidence] = Num(900)
    /\ GetNum(args.features, JitterLocal) = 3500
    /\ GetNum(args.features, ShimmerLocal) = 8000
    /\ GetNum(args.features, HnrMean) = 80
    /\ args.threshold = ExcellentHnrThreshold
    /\ ret = Num(62400)

-----------------------------------------------------------------------------
(* A recording without voiced frames (Spec) *)

NoVoicedFrames == "No voiced frames detected" \in warnings

\* C24: when pitch tracking finds no voiced frame, an empty pitch track
\* included, extract returns a FeatureSet with error None, f0_mean = f0_std =
\* f0_confidence = 0, every reported quality measure 0, vocal_stability_score
\* = 0, and metadata voiced_ratio = 0 and voiced_frame_count = 0.
C24_NoVoicedFramesAllZero ==
    /\ (InExtract /\ NoVoicedFrames) => exc = NoExc
    /\ (ExtractReturned /\ NoVoicedFrames) =>
          /\ result.error = NoneV
          /\ result.error_message = NoneV
          /\ \A name \in {F0Mean, F0Std, F0Confidence, VocalStabilityScore} :
                name \in DOMAIN result.features /\ result.features[name] = Num(0)
          /\ \A name \in QualityFeatureNames \cap DOMAIN result.features :
                result.features[name] = Num(0)
          /\ {JitterLocal, ShimmerLocal, HnrMean} \subseteq DOMAIN result.features
          /\ result.metadata.present
          /\ result.metadata.dict[<<"voiced", "ratio">>] = Num(0)
          /\ result.metadata.dict[<<"voiced", "frame", "count">>] = Num(0)

\* C24 witness: the pitch track is empty (no frame at all) and extract returned
C24_Witness ==
    /\ ExtractReturned
    /\ NoVoicedFrames
    /\ pitch.frames = 0
    /\ result.metadata.dict[<<"frame", "count">>] = Num(0)
    /\ result.features[VocalStabilityScore] = Num(0)

-----------------------------------------------------------------------------
(* Agreement of the features and the metadata about voicing (Spec) *)

\* round(metadata.voiced_ratio * 100, 1) of a FeatureSet, in tenths
RatioAsConfidence(fs) ==
    LET ratio == fs.metadata.dict[<<"voiced", "ratio">>]
    IN  RoundHalfEven(ratio.n * 1000, ratio.d)

\* C25 as stated: in every FeatureSet extract returns, on success and on every
\* failure path, f0_confidence equals metadata.voiced_ratio * 100 rounded to one
\* decimal, so f0_confidence = 0 never comes with a non-zero voiced_ratio.
C25_ConfidenceMatchesRatio ==
    ExtractReturned =>
        /\ result.features[F0Confidence] = Num(RatioAsConfidence(result))
        /\ result.features[F0Confidence] = Num(0) =>
              result.metadata.dict[<<"voiced", "ratio">>] = Num(0)

\* C25 amended: the agreement holds on success and on the extraction_failed
\* path; on the library-unavailable path f0_confidence is 0 while the metadata
\* carries the placeholder voiced_ratio 0.8.
C25_ConfidenceMatchesRatioUnlessUnavailable ==
    ExtractReturned =>
        IF result.error = Str("parselmouth_unavailable")
        THEN /\ result.features[F0Confidence] = Num(0)
             /\ result.metadata.dict[<<"voiced", "ratio">>] = Rat(4, 5)
        ELSE /\ result.features[F0Confidence] = Num(RatioAsConfidence(result))
             /\ result.features[F0Confidence] = Num(0) =>
                   result.metadata.dict[<<"voiced", "ratio">>] = Num(0)

\* C25 witness: all frames but one are voiced, and f0_confidence is the
\* percentage of that ratio, between 90 and 100
C25_Witness ==
    /\ ExtractReturned
    /\ result.error = NoneV
    /\ pitch.voiced = pitch.frames - 1
    /\ result.metadata.dict[<<"voiced", "ratio">>] = Rat(pitch.voiced, pitch.frames)
    /\ result.features[F0Confidence].n > 900
    /\ result.features[F0Confidence].n < 1000

-----------------------------------------------------------------------------
(* Monotonicity of the score from zero perturbation on (SpecScore) *)

\* C26: with the other features fixed the score never rises as jitter_local
\* rises over jitter_local >= 0, and never rises as shimmer_local rises over
\* shimmer_local >= 0.
C26_NonIncreasingFromZero ==
    pc = "score_done" =>
        /\ \A b \in ScoreJitters :
              (/\ JitterLocal \in DOMAIN args.features
               /\ 0 <= args.features[JitterLocal].n
               /\ args.features[JitterLocal].n < b) =>
                  ret.n >= CalculateVocalStabilityScore(With(JitterLocal, b), args.threshold)
        /\ \A b \in ScoreShimmers :
              (/\ ShimmerLocal \in DOMAIN args.features
               /\ 0 <= args.features[ShimmerLocal].n
               /\ args.features[ShimmerLocal].n < b) =>
                  ret.n >= CalculateVocalStabilityScore(With(ShimmerLocal, b), args.threshold)

-----------------------------------------------------------------------------
(* The processing metadata of a stored record (Spec) *)

\* 'vocal_analysis_metadata_voiced_ratio'
VoicedRatioKey == ExtractorName \o <<"metadata", "voiced", "ratio">>

\* C27: every stored record has 0 <= voiced_frames <= total_frames, and
\* voiced_frames is 0 whenever its vocal_analysis_metadata_voiced_ratio is 0 or
\* missing.
C27_VoicedFramesFollowRatio ==
    \A i \in 1..Len(store) :
        LET md == store[i].processing_metadata
            feats == store[i].features
        IN  /\ 0 <= md.voiced_frames
            /\ md.voiced_frames <= md.total_frames
            /\ (VoicedRatioKey \notin DOMAIN feats \/ feats[VoicedRatioKey].n = 0) =>
                  md.voiced_frames = 0

-----------------------------------------------------------------------------
(* The status of a stored record (Spec) *)

\* some FeatureSet handed to the formatter carried a top-level error
ErrorCarried == \E i \in 1..Len(feature_sets) : Truthy(feature_sets[i].error)

\* C28: a stored record has status 'completed_with_warnings' exactly when a
\* FeatureSet carried a top-level error and 'completed' otherwise, a partial
\* failure with zero-filled quality measures included; a record whose
\* FeatureSet carries an error is written like any other (the run ends stored,
\* or raised when the write itself fails), never skipped.
C28_StatusReflectsErrors ==
    /\ outcome = "stored" =>
          /\ Len(store) = 1
          /\ store[1].status = IF ErrorCarried THEN "completed_with_warnings"
                                ELSE "completed"
          /\ store[1].features = flattened
    /\ (outcome = "stored" /\ (PerturbationFailed \/ HnrFailed)) =>
          store[1].status = "completed"
    /\ (pc = "done" /\ feature_sets # <<>>) => outcome \in {"stored", "raised"}

\* C28 witness: the extraction failed as a whole and its zero-filled record
\* is stored with warnings
C28_Witness ==
    /\ outcome = "stored"
    /\ result.error = Str("extraction_failed")
    /\ store[1].status = "completed_with_warnings"
    /\ store[1].features[ExtractorName \o F0Mean] = Num(0)

-----------------------------------------------------------------------------
(* BaseFeatureExtractor.extract_with_error_handling as a function of its     *)
(* arguments and of what the subclass's extract does (SpecHandled)           *)

\* the audio argument: None, or an array of len samples
HandledAudios == {[none |-> TRUE, len |-> 0]} \cup [none : {FALSE}, len : {0, 3, 48000}]

HandledRates == {-1, 0, 16000, TargetSampleRate}

\* what self.extract does: it raises, it returns a flat dict of features, it
\* returns a dict with 'features' and 'metadata', or (VocalAnalysisExtractor)
\* it returns the FeatureSet of lines 210-280
ExtractResults ==
    {[type |-> "raises", structured |-> FALSE, features |-> EmptyDict,
      metadata |-> EmptyDict]}
    \cup {[type |-> "dict", structured |-> st,
           features |-> (F0Mean :> Num(2200)) @@ (HnrMean :> Num(180)),
           metadata |-> IF st THEN <<"sample", "rate">> :> Num(TargetSampleRate)
                        ELSE EmptyDict] : st \in BOOLEAN}
    \cup {[type |-> "FeatureSet", structured |-> TRUE,
           features |-> AnalysisResult(o).features,
           metadata |-> AnalysisResult(o).metadata.dict] : o \in EngineOutcomes}

\* self.namespace_key over a dict's keys, or dict(d) when namespace is false
NamespaceAll(d, namespace) ==
    IF namespace
    THEN [key \in {NamespacedKey(ExtractorName, k) : k \in DOMAIN d} |->
             d[CHOOSE k \in DOMAIN d : NamespacedKey(ExtractorName, k) = key]]
    ELSE d

NoErrors == [present |-> FALSE, error_type |-> "", error_message |-> ""]

\* the dict returned at lines 111-115
HandledSuccess(feats, metadata) ==
    [kind |-> "dict", n |-> 0, d |-> 1, s |-> "",
     features |-> feats,
     metadata |-> Update(metadata, <<"version">> :> ExtractorVersion),
     errors |-> NoErrors]

\* the dict returned by the handler, lines 116-126
HandledFailure(message) ==
    [kind |-> "dict", n |-> 0, d |-> 1, s |-> "",
     features |-> EmptyDict,
     metadata |-> <<"version">> :> ExtractorVersion,
     errors |-> [present |-> TRUE, error_type |-> "extraction_failed",
                 error_message |-> message]]

\* lines 91-126
ExtractWithErrorHandling(a, sample_rate, namespace, extracted) ==
    IF a.none \/ a.len = 0 THEN HandledFailure("Audio data is empty or None")
    ELSE IF sample_rate <= 0 THEN HandledFailure("Invalid sample rate")
    ELSE IF extracted.type = "raises" THEN HandledFailure("extract raised")
    ELSE IF extracted.type # "dict"
    THEN HandledFailure("Extractor must return a dictionary")
    ELSE HandledSuccess(NamespaceAll(extracted.features, namespace),
                        NamespaceAll(extracted.metadata, namespace))

InitHandled ==
    /\ pc = "handled_call"
    /\ args \in [audio : HandledAudios, sample_rate : HandledRates,
                  namespace : BOOLEAN, extracted : ExtractResults]
    /\ ret = NoneV
    /\ audio = [len |-> 0, rms |-> 0]
    /\ tempFile = "none"
    /\ pitch = NoPitch
    /\ features = EmptyDict
    /\ voiced_ratio = Num(0)
    /\ exc = NoExc
    /\ engineCalls = <<>>
    /\ warnings = {}
    /\ result = NoResult
    /\ feature_sets = <<>>
    /\ flattened = EmptyDict
    /\ outcome = "running"
    /\ store = <<>>
    /\ downloadFile = "none"
    /\ temp_file_path = NoneV
    /\ NoCalls

\* extractor.extract_with_error_handling(audio, sample_rate, namespace)
HandledCall ==
    /\ pc = "handled_call"
    /\ ret' = ExtractWithErrorHandling(args.audio, args.sample_rate, args.namespace,
                                       args.extracted)
    /\ pc' = "handled_done"
    /\ UNCHANGED <<audio, tempFile, pitch, features, voiced_ratio, exc, engineCalls,
                   warnings, result, feature_sets, flattened, outcome, store, args>>
    /\ UNCHANGED outside

NextHandled == HandledCall

SpecHandled == InitHandled /\ [][NextHandled]_vars

\* C29: for non-empty audio and a positive rate, when extract completes
\* without raising (VocalAnalysisExtractor's FeatureSet included) the call
\* returns errors = None, one entry '{name}_{k}' per feature k produced and the
\* version in the metadata; on invalid input or a raising extract it returns
\* errors.error_type = 'extraction_failed' without raising.
C29_HandledReturnsFeatures ==
    pc = "handled_done" =>
        LET valid == ~args.audio.none /\ args.audio.len > 0 /\ args.sample_rate > 0
        IN  /\ ret.kind = "dict"
            /\ (valid /\ args.extracted.type # "raises" /\ args.namespace) =>
                  /\ ~ret.errors.present
                  /\ \A k \in DOMAIN args.extracted.features :
                        /\ NamespacedKey(ExtractorName, k) \in DOMAIN ret.features
                        /\ ret.features[NamespacedKey(ExtractorName, k)]
                              = args.extracted.features[k]
                  /\ ret.metadata[<<"version">>] = ExtractorVersion
            /\ (~valid \/ args.extracted.type = "raises") =>
                  /\ ret.errors.present
                  /\ ret.errors.error_type = "extraction_failed"

-----------------------------------------------------------------------------
(* Concurrent reads of FirebaseManager.firestore_client and storage_client   *)
(* (SpecClients): each thread reads one of the two properties once. A client *)
(* is a positive instance number, None is 0.                                 *)

\* number of threads reading a client property
MaxThreads == 2

Threads == 1..MaxThreads

ClientKinds == {"firestore", "storage"}

NewThread == [pc |-> "idle", client |-> "firestore", local |-> 0, slow |-> FALSE]

InitClients ==
    /\ manager = NewManager
    /\ threads = [t \in Threads |-> NewThread]
    /\ constructed = <<>>
    /\ pc = "clients"
    /\ audio = [len |-> 0, rms |-> 0]
    /\ tempFile = "none"
    /\ pitch = NoPitch
    /\ features = EmptyDict
    /\ voiced_ratio = Num(0)
    /\ exc = NoExc
    /\ engineCalls = <<>>
    /\ warnings = {}
    /\ result = NoResult
    /\ feature_sets = <<>>
    /\ flattened = EmptyDict
    /\ outcome = "running"
    /\ store = <<>>
    /\ args = NoArgs
    /\ ret = NoneV
    /\ downloadFile = "none"
    /\ temp_file_path = NoneV
    /\ calls = <<>>
    /\ files = <<>>
    /\ engine = <<>>
    /\ fileOps = {}

\* what a step of a thread leaves alone
ClientsFrame ==
    /\ UNCHANGED sequential
    /\ UNCHANGED <<calls, files, engine, fileOps>>

\* thread t starts reading manager.firestore_client or manager.storage_client
ClientAccess(t) ==
    /\ threads[t].pc = "idle"
    /\ \E kind \in ClientKinds :
          threads' = [threads EXCEPT ![t].client = kind, ![t].pc = "check"]
    /\ UNCHANGED <<manager, constructed>>
    /\ ClientsFrame

\* lines 62 and 71: the unlocked `if self._client is None`
ClientCheck(t) ==
    /\ threads[t].pc = "check"
    /\ threads' = [threads EXCEPT
                      ![t].pc = IF manager[threads[t].client] = 0
                                THEN "acquire" ELSE "return",
                      ![t].slow = manager[threads[t].client] = 0]
    /\ UNCHANGED <<manager, constructed>>
    /\ ClientsFrame

\* lines 63 and 72: `with self._lock` blocks until the lock is free
ClientAcquire(t) ==
    /\ threads[t].pc = "acquire"
    /\ manager.lock = 0
    /\ manager' = [manager EXCEPT !.lock = t]
    /\ threads' = [threads EXCEPT ![t].pc = "locked_check"]
    /\ UNCHANGED constructed
    /\ ClientsFrame

\* mutant of ClientLockedCheck: no second check, the holder always constructs
ClientLockedCheckSkipped(t) ==
    /\ threads[t].pc = "locked_check"
    /\ threads' = [threads EXCEPT ![t].pc = "construct"]
    /\ UNCHANGED <<manager, constructed>>
    /\ ClientsFrame

\* lines 64 and 73: the second `if self._client is None`, under the lock
ClientLockedCheck(t) ==
    /\ threads[t].pc = "locked_check"
    /\ threads' = [threads EXCEPT
                      ![t].pc = IF manager[threads[t].client] = 0
                                THEN "construct" ELSE "release"]
    /\ UNCHANGED <<manager, constructed>>
    /\ ClientsFrame

\* lines 65 and 74, right-hand side: firestore.client() / storage.Client()
\* returns a new client, or raises and the with statement releases the lock
ClientConstruct(t) ==
    /\ threads[t].pc = "construct"
    /\ \/ /\ constructed' = Append(constructed, threads[t].client)
          /\ threads' = [threads EXCEPT ![t].local = Len(constructed) + 1,
                                        ![t].pc = "assign"]
          /\ UNCHANGED manager
       \/ /\ manager' = [manager EXCEPT !.lock = 0]
          /\ threads' = [threads EXCEPT ![t].pc = "raised"]
          /\ UNCHANGED constructed
    /\ ClientsFrame

\* lines 65 and 74, the assignment to self._client
ClientAssign(t) ==
    /\ threads[t].pc = "assign"
    /\ manager' = [manager EXCEPT ![threads[t].client] = threads[t].local]
    /\ threads' = [threads EXCEPT ![t].pc = "release"]
    /\ UNCHANGED constructed
    /\ ClientsFrame

\* leaving the with block releases the lock
ClientRelease(t) ==
    /\ threads[t].pc = "release"
    /\ manager' = [manager EXCEPT !.lock = 0]
    /\ threads' = [threads EXCEPT ![t].pc = "return"]
    /\ UNCHANGED constructed
    /\ ClientsFrame

\* lines 66 and 75: return self._client
ClientReturn(t) ==
    /\ threads[t].pc = "return"
    /\ threads' = [threads EXCEPT ![t].local = manager[threads[t].client],
                                  ![t].pc = "returned"]
    /\ UNCHANGED <<manager, constructed>>
    /\ ClientsFrame

NextClients ==
    \E t \in Threads :
        \/ ClientAccess(t)
        \/ ClientCheck(t)
        \/ ClientAcquire(t)
        \/ ClientLockedCheck(t)
        \/ ClientConstruct(t)
        \/ ClientAssign(t)
        \/ ClientRelease(t)
        \/ ClientReturn(t)

SpecClients == InitClients /\ [][NextClients]_vars

\* the constructions of clients of one kind, as positions in `constructed`
Constructions(kind) == {i \in 1..Len(constructed) : constructed[i] = kind}

\* C30: under any interleaving of threads reading firestore_client (likewise
\* storage_client), the client is constructed at most once and every read
\* returns that one instance.
C30_ClientConstructedOnce ==
    /\ \A kind \in ClientKinds : Cardinality(Constructions(kind)) <= 1
    /\ \A t \in Threads :
          threads[t].pc = "returned" => Constructions(threads[t].client) = {threads[t].local}
    /\ \A t, u \in Threads :
          (/\ threads[t].pc = "returned" /\ threads[u].pc = "returned"
           /\ threads[t].client = threads[u].client) =>
              threads[t].local = threads[u].local

\* C30 witness: two threads both found the Firestore client missing at the
\* unlocked check, and both returned the one client that was constructed
C30_Witness ==
    /\ \A t \in {1, 2} :
          /\ threads[t].pc = "returned"
          /\ threads[t].client = "firestore"
          /\ threads[t].slow
          /\ threads[t].local = 1
    /\ constructed = <<"firestore">>

====
